---- MODULE Spec2Model ----
(***************************************************************************)
(* A model of calc_rs: the rule-driven shunting-yard parser of             *)
(* src/src/parsing.rs and the postfix evaluator of src/src/evaluating.rs,  *)
(* driven line by line against one persistent variable mapping.            *)
(***************************************************************************)
EXTENDS Integers, Sequences, FiniteSets, TLC

(***************************************************************************)
(* Bounds of the model.                                                    *)
(***************************************************************************)
\* tokens dispatched to the parser over one session (all lines together)
MaxTokens == 6
\* lines read in one session
MaxLines == 2
\* tokens of one line of calls and assignments (SpecCall)
MaxCallTokens == 10
\* tokens of a session of lines over reserved and plain names (SpecNames)
MaxNameTokens == 6
\* tokens of one line of numbers and binary operators (SpecArith)
MaxArithTokens == 6
\* tokens of one line of numbers, binary operators and parentheses (SpecGroup)
MaxGroupTokens == 7
\* tokens of one line with unary prefixes and functions (SpecUnary)
MaxUnaryTokens == 6
\* tokens of one line parsed against a given mapping (SpecVar)
MaxVarTokens == 5
\* characters of a source line that is scanned (SpecScan)
MaxSourceLen == 3
\* pulls from the scanner of one source line (SpecScan)
MaxPulls == 4
\* numerators and denominators the value domain keeps exactly
MaxMag == 10000

(***************************************************************************)
(* Option values: None is <<>>, Some(x) is <<x>>.                          *)
(***************************************************************************)
None == <<>>
Some(x) == <<x>>
IsSome(o) == o /= <<>>
Unwrap(o) == o[1]

(***************************************************************************)
(* f32 values.  A value is an exact rational <<n, d>> in lowest terms with *)
(* d > 0, as long as n and d stay within MaxMag; every other f32 result    *)
(* (non-finite, irrational, or beyond the range the model keeps) is the    *)
(* one absorbing value Unrepresented.                                      *)
(***************************************************************************)
Unrepresented == <<0, 0>>

Abs(n) == IF n < 0 THEN -n ELSE n

RECURSIVE Gcd(_, _)
Gcd(a, b) == IF b = 0 THEN a ELSE Gcd(b, a % b)

Rat(n, d) ==
    IF d = 0 THEN Unrepresented
    ELSE LET g == Gcd(Abs(n), Abs(d))
             s == IF d < 0 THEN -1 ELSE 1
             nn == (s * n) \div g
             dd == (s * d) \div g
         IN IF Abs(nn) > MaxMag \/ dd > MaxMag THEN Unrepresented ELSE <<nn, dd>>

IsRep(a) == a /= Unrepresented
Int2Val(n) == Rat(n, 1)

Add(a, b) == IF IsRep(a) /\ IsRep(b) THEN Rat(a[1] * b[2] + b[1] * a[2], a[2] * b[2]) ELSE Unrepresented
Sub(a, b) == IF IsRep(a) /\ IsRep(b) THEN Rat(a[1] * b[2] - b[1] * a[2], a[2] * b[2]) ELSE Unrepresented
Mul(a, b) == IF IsRep(a) /\ IsRep(b) THEN Rat(a[1] * b[1], a[2] * b[2]) ELSE Unrepresented
Div(a, b) == IF IsRep(a) /\ IsRep(b) THEN Rat(a[1] * b[2], a[2] * b[1]) ELSE Unrepresented
Neg(a) == IF IsRep(a) THEN <<-a[1], a[2]>> ELSE Unrepresented
Less(a, b) == a[1] * b[2] < b[1] * a[2]

\* base^k for k >= 0, stopping as soon as the magnitude leaves the kept range
RECURSIVE IntPowAcc(_, _, _)
IntPowAcc(base, k, acc) ==
    IF k = 0 \/ Abs(acc) > MaxMag THEN acc
    ELSE IF base = 0 THEN 0
    ELSE IF base = 1 THEN 1
    ELSE IF base = -1 THEN (IF k % 2 = 0 THEN acc ELSE -acc)
    ELSE IntPowAcc(base, k - 1, acc * base)

IntPow(base, k) == IntPowAcc(base, k, 1)

\* f32::powf on the kept domain: integer exponents only
Powf(a, b) ==
    IF ~(IsRep(a) /\ IsRep(b)) THEN Unrepresented
    ELSE IF b[2] /= 1 THEN (IF a = <<1, 1>> THEN a ELSE Unrepresented)
    ELSE IF b[1] >= 0 THEN Rat(IntPow(a[1], b[1]), IntPow(a[2], b[1]))
    ELSE Rat(IntPow(a[2], -b[1]), IntPow(a[1], -b[1]))

FloorVal(a) == IF IsRep(a) THEN Int2Val(a[1] \div a[2]) ELSE Unrepresented
CeilVal(a) == IF IsRep(a) THEN Int2Val(-((-a[1]) \div a[2])) ELSE Unrepresented
\* f32::round rounds half away from zero
RoundVal(a) ==
    IF ~IsRep(a) THEN Unrepresented
    ELSE IF a[1] >= 0 THEN Int2Val((2 * a[1] + a[2]) \div (2 * a[2]))
    ELSE Int2Val(-((2 * (-a[1]) + a[2]) \div (2 * a[2])))
AbsVal(a) == IF IsRep(a) THEN <<Abs(a[1]), a[2]>> ELSE Unrepresented

\* the exact k-th root of a natural number, if it has one
IntRoot(n, k) ==
    LET roots == {r \in 0..n : IntPow(r, k) = n}
    IN IF roots = {} THEN None ELSE Some(CHOOSE r \in roots : TRUE)

RootVal(a, k) ==
    IF ~IsRep(a) THEN Unrepresented
    ELSE IF a[1] < 0 /\ k = 2 THEN Unrepresented
    ELSE LET rn == IntRoot(Abs(a[1]), k)
             rd == IntRoot(a[2], k)
         IN IF IsSome(rn) /\ IsSome(rd)
            THEN Rat((IF a[1] < 0 THEN -1 ELSE 1) * Unwrap(rn), Unwrap(rd))
            ELSE Unrepresented

\* a transcendental function: rational only at its one listed point
OnlyAt(a, point, image) == IF a = point THEN image ELSE Unrepresented

(***************************************************************************)
(* Tokens (src/src/scanning.rs).  A content is the sequence of the token's *)
(* characters.                                                             *)
(***************************************************************************)
TokenKind == {"identifier", "number", "operator", "punctuation"}

Token(content, kind) == [content |-> content, kind |-> kind]

Digits == {"0", "1", "2", "3", "4", "5", "6", "7", "8", "9"}

DigitValue(c) ==
    CASE c = "0" -> 0 [] c = "1" -> 1 [] c = "2" -> 2 [] c = "3" -> 3 [] c = "4" -> 4
      [] c = "5" -> 5 [] c = "6" -> 6 [] c = "7" -> 7 [] c = "8" -> 8 [] c = "9" -> 9

\* the digits of a content, read as one decimal integer (dots skipped)
RECURSIVE DigitsValue(_, _)
DigitsValue(content, acc) ==
    IF content = <<>> THEN acc
    ELSE IF Head(content) = "." THEN DigitsValue(Tail(content), acc)
    ELSE DigitsValue(Tail(content), 10 * acc + DigitValue(Head(content)))

\* str::parse::<f32> on a run of digits and dots: at most one dot and at
\* least one digit, else an error (None)
ParseF32(content) ==
    LET dots == {i \in 1..Len(content) : content[i] = "."}
        digits == {i \in 1..Len(content) : content[i] \in Digits}
    IN IF Cardinality(dots) > 1 \/ digits = {} \/ Cardinality(dots) + Cardinality(digits) /= Len(content)
       THEN None
       ELSE LET fraction == IF dots = {} THEN 0 ELSE Len(content) - (CHOOSE i \in dots : TRUE)
            IN Some(Rat(DigitsValue(content, 0), IntPow(10, fraction)))

(***************************************************************************)
(* Errors: the CalcError values parsing.rs constructs, and panics.         *)
(***************************************************************************)
CalcError(kind, content) == [kind |-> kind, content |-> content]

Ok == [status |-> "Ok"]
Err(error) == [status |-> "Err", error |-> error]
Panic(message) == [status |-> "Panic", message |-> message]

(***************************************************************************)
(* Precedence (parsing.rs 18-33).                                          *)
(***************************************************************************)
\* variant: a pending marker of equal precedence is not flushed
precedes_strict(self, other) ==
    IF other = "high" THEN FALSE
    ELSE IF self = "high" THEN TRUE
    ELSE IF self = "medium" THEN other = "low"
    ELSE FALSE

precedes(self, other) ==
    IF other = "high" THEN FALSE
    ELSE IF self = "high" THEN TRUE
    ELSE IF self = "medium" THEN TRUE
    ELSE IF other = "medium" THEN FALSE
    ELSE TRUE

(***************************************************************************)
(* Function: the unary functions (parsing.rs 35-124).                      *)
(***************************************************************************)
Name_floor == <<"f", "l", "o", "o", "r">>
Name_ceil == <<"c", "e", "i", "l">>
Name_round == <<"r", "o", "u", "n", "d">>
Name_sin == <<"s", "i", "n">>
Name_cos == <<"c", "o", "s">>
Name_tan == <<"t", "a", "n">>
Name_asin == <<"a", "s", "i", "n">>
Name_acos == <<"a", "c", "o", "s">>
Name_atan == <<"a", "t", "a", "n">>
Name_todeg == <<"t", "o", "d", "e", "g">>
Name_torad == <<"t", "o", "r", "a", "d">>
Name_log == <<"l", "o", "g">>
Name_ln == <<"l", "n">>
Name_sqrt == <<"s", "q", "r", "t">>
Name_cbrt == <<"c", "b", "r", "t">>
Name_abs == <<"a", "b", "s">>
Name_min == <<"m", "i", "n">>
Name_max == <<"m", "a", "x">>
Name_avg == <<"a", "v", "g">>
Name_pi == <<"p", "i">>
Name_e == <<"e">>

Function_from_operator(content) ==
    CASE content = <<"+">> -> [ok |-> TRUE, value |-> "positive"]
      [] content = <<"-">> -> [ok |-> TRUE, value |-> "negative"]
      [] OTHER -> [ok |-> FALSE, error |-> CalcError("invalid_operator", content)]

Function_from_identifier(content) ==
    CASE content = Name_floor -> Some("floor")
      [] content = Name_ceil -> Some("ceil")
      [] content = Name_round -> Some("round")
      [] content = Name_sin -> Some("sin")
      [] content = Name_cos -> Some("cos")
      [] content = Name_tan -> Some("tan")
      [] content = Name_asin -> Some("asin")
      [] content = Name_acos -> Some("acos")
      [] content = Name_atan -> Some("atan")
      [] content = Name_todeg -> Some("todeg")
      [] content = Name_torad -> Some("torad")
      [] content = Name_log -> Some("log")
      [] content = Name_ln -> Some("ln")
      [] content = Name_sqrt -> Some("sqrt")
      [] content = Name_cbrt -> Some("cbrt")
      [] content = Name_abs -> Some("abs")
      [] OTHER -> None

PiVal == Rat(355, 113)
EVal == Rat(193, 71)

Function_call(self, n) ==
    CASE self = "positive" -> n
      [] self = "negative" -> Neg(n)
      [] self = "floor" -> FloorVal(n)
      [] self = "ceil" -> CeilVal(n)
      [] self = "round" -> RoundVal(n)
      [] self = "sin" -> OnlyAt(n, Int2Val(0), Int2Val(0))
      [] self = "cos" -> OnlyAt(n, Int2Val(0), Int2Val(1))
      [] self = "tan" -> OnlyAt(n, Int2Val(0), Int2Val(0))
      [] self = "asin" -> OnlyAt(n, Int2Val(0), Int2Val(0))
      [] self = "acos" -> OnlyAt(n, Int2Val(1), Int2Val(0))
      [] self = "atan" -> OnlyAt(n, Int2Val(0), Int2Val(0))
      [] self = "todeg" -> OnlyAt(n, Int2Val(0), Int2Val(0))
      [] self = "torad" -> OnlyAt(n, Int2Val(0), Int2Val(0))
      [] self = "log" -> OnlyAt(n, Int2Val(1), Int2Val(0))
      [] self = "ln" -> OnlyAt(n, Int2Val(1), Int2Val(0))
      [] self = "sqrt" -> RootVal(n, 2)
      [] self = "cbrt" -> RootVal(n, 3)
      [] self = "abs" -> AbsVal(n)

Function_precedence(self) ==
    IF self \in {"positive", "negative"} THEN "low" ELSE "high"

(***************************************************************************)
(* BinaryFunction (parsing.rs 126-180).                                    *)
(***************************************************************************)
BinaryFunction_from_operator(content) ==
    CASE content = <<"+">> -> [ok |-> TRUE, value |-> "addition"]
      [] content = <<"-">> -> [ok |-> TRUE, value |-> "subtraction"]
      [] content = <<"*">> -> [ok |-> TRUE, value |-> "multiplication"]
      [] content = <<"/">> -> [ok |-> TRUE, value |-> "division"]
      [] content = <<"^">> -> [ok |-> TRUE, value |-> "exponentiation"]
      [] OTHER -> [ok |-> FALSE, error |-> CalcError("invalid_operator", content)]

BinaryFunction_call(self, a, b) ==
    CASE self = "addition" -> Add(a, b)
      [] self = "subtraction" -> Sub(a, b)
      [] self = "multiplication" -> Mul(a, b)
      [] self = "division" -> Div(a, b)
      [] self = "exponentiation" -> Powf(a, b)

BinaryFunction_precedence(self) ==
    CASE self \in {"addition", "subtraction"} -> "low"
      [] self \in {"multiplication", "division"} -> "medium"
      [] self = "exponentiation" -> "high"

(***************************************************************************)
(* VariedFunction (parsing.rs 182-205).                                    *)
(***************************************************************************)
VariedFunction_from_identifier(content) ==
    CASE content = Name_min -> Some("min")
      [] content = Name_max -> Some("max")
      [] content = Name_avg -> Some("avg")
      [] OTHER -> None

\* f32::min and f32::max
MinVal(a, b) == IF IsRep(a) /\ IsRep(b) THEN (IF Less(b, a) THEN b ELSE a) ELSE Unrepresented
MaxVal(a, b) == IF IsRep(a) /\ IsRep(b) THEN (IF Less(a, b) THEN b ELSE a) ELSE Unrepresented

RECURSIVE FoldMin(_)
FoldMin(values) ==
    IF Len(values) = 1 THEN values[1] ELSE MinVal(FoldMin(SubSeq(values, 1, Len(values) - 1)), values[Len(values)])

RECURSIVE FoldMax(_)
FoldMax(values) ==
    IF Len(values) = 1 THEN values[1] ELSE MaxVal(FoldMax(SubSeq(values, 1, Len(values) - 1)), values[Len(values)])

RECURSIVE Sum(_)
Sum(values) == IF values = <<>> THEN Int2Val(0) ELSE Add(Sum(SubSeq(values, 1, Len(values) - 1)), values[Len(values)])

\* folding from f32::MAX / f32::MIN over no values gives a value out of the kept range
VariedFunction_call(self, values) ==
    CASE self = "min" -> IF values = <<>> THEN Unrepresented ELSE FoldMin(values)
      [] self = "max" -> IF values = <<>> THEN Unrepresented ELSE FoldMax(values)
      [] self = "avg" -> Div(Sum(values), Int2Val(Len(values)))

(***************************************************************************)
(* ExprNode and StackNode (parsing.rs 207-228).                            *)
(***************************************************************************)
ExprValue(value) == [node |-> "value", value |-> value]
ExprCast(function) == [node |-> "cast", action |-> function]
ExprTie(function) == [node |-> "tie", action |-> function]
ExprKnot(function, count) == [node |-> "knot", action |-> function, count |-> count]
ExprAssign(identifier) == [node |-> "assign", identifier |-> identifier]

\* ExprNode::varied
ExprVaried(function, count) == ExprKnot(function, count)

StackFunction(function) == [node |-> "function", function |-> function]
StackBinary(function) == [node |-> "binary_function", function |-> function]
StackVaried(function, count) == [node |-> "varied_function", function |-> function, count |-> count]
StackSection(enclosure) == [node |-> "section", enclosure |-> enclosure]
StackVariable(identifier) == [node |-> "variable", identifier |-> identifier]
StackAssign(identifier) == [node |-> "assign", identifier |-> identifier]

\* Function::preceding and BinaryFunction::preceding
Function_preceding(self, precedence) ==
    IF precedes(Function_precedence(self), precedence) THEN Some(ExprCast(self)) ELSE None

BinaryFunction_preceding(self, precedence) ==
    IF precedes(BinaryFunction_precedence(self), precedence) THEN Some(ExprTie(self)) ELSE None

(***************************************************************************)
(* Context and Yard (parsing.rs 446-565).  The state of one parse call is  *)
(* one record p: the context's rule overlays, active ruleset, enclosure    *)
(* and variables, the yard's expression and stack, and the Result of the   *)
(* call so far.                                                            *)
(***************************************************************************)
Ruleset_placing ==
    << <<"value_placing", "operator_placing", "paren_placing", "identifier_placing">>,
       <<"assign_placing">> >>

Ruleset_binding == << <<"operator_binding">> >>

\* Ruleset::reset: truncate(1)
Ruleset_reset(rules) == SubSeq(rules, 1, 1)

\* Ruleset::push
Ruleset_push(rules, overlay) == Append(rules, overlay)

create_constants == [k \in {Name_pi, Name_e} |-> IF k = Name_pi THEN PiVal ELSE EVal]

\* Context::new and Yard::new; variables is the caller's mapping, held by
\* reference
NewParse(variables) ==
    [variables |-> variables,
     placing |-> Ruleset_placing,
     binding |-> Ruleset_binding,
     active_ruleset |-> "placing",
     enclosure |-> "open",
     expression |-> <<>>,
     stack |-> <<>>,
     result |-> Ok]

Fail(p, error) == [p EXCEPT !.result = Err(error)]

\* Context::enclose
enclose(p, enclosure) ==
    IF p.enclosure /= enclosure
    THEN [p EXCEPT
            !.placing = Ruleset_reset(p.placing),
            !.binding =
                IF enclosure = "nested" THEN Ruleset_push(Ruleset_reset(p.binding), <<"paren_binding">>)
                ELSE IF enclosure = "listed" THEN Ruleset_push(Ruleset_reset(p.binding), <<"arg_binding", "list_binding">>)
                ELSE Ruleset_reset(p.binding),
            !.enclosure = enclosure]
    ELSE p

Push(seq, x) == Append(seq, x)
Last(seq) == seq[Len(seq)]
Pop(seq) == SubSeq(seq, 1, Len(seq) - 1)

\* Yard::get_preceding
get_preceding(stack, precedence) ==
    IF stack /= <<>>
    THEN LET node == Last(stack)
         IN IF node.node = "function" THEN Function_preceding(node.function, precedence)
            ELSE IF node.node = "binary_function" THEN BinaryFunction_preceding(node.function, precedence)
            ELSE None
    ELSE None

\* Yard::pop_preceding: the popped node and the stack left
pop_preceding(stack, precedence) ==
    LET node == get_preceding(stack, precedence)
    IN IF IsSome(node) THEN [node |-> node, stack |-> Pop(stack)]
       ELSE [node |-> None, stack |-> stack]

\* the loop of operator_binding: while let Some(node) = yard.pop_preceding(..)
RECURSIVE FlushPreceding(_, _)
FlushPreceding(p, precedence) ==
    LET popped == pop_preceding(p.stack, precedence)
    IN IF IsSome(popped.node)
       THEN FlushPreceding([p EXCEPT !.stack = popped.stack,
                                     !.expression = Push(p.expression, Unwrap(popped.node))],
                           precedence)
       ELSE p

(***************************************************************************)
(* The rules (parsing.rs 248-444): a cause and an effect each.             *)
(***************************************************************************)
value_placing_effect(p, token) ==
    LET q == [p EXCEPT !.active_ruleset = "binding"]
        number == ParseF32(token.content)
    IN IF IsSome(number)
       THEN [q EXCEPT !.expression = Push(q.expression, ExprValue(Unwrap(number)))]
       ELSE Fail(q, CalcError("invalid_number", token.content))

operator_placing_effect(p, token) ==
    LET operator == Function_from_operator(token.content)
    IN IF operator.ok
       THEN [p EXCEPT !.stack = Push(p.stack, StackFunction(operator.value))]
       ELSE Fail(p, operator.error)

\* variant: '(' opens the enclosure without marking the stack
paren_placing_unmarked(p, token) == enclose(p, "nested")

paren_placing_effect(p, token) ==
    enclose([p EXCEPT !.stack = Push(p.stack, StackSection(p.enclosure))], "nested")

RECURSIVE paren_binding_effect(_, _)
paren_binding_effect(p, token) ==
    IF p.stack = <<>> THEN p
    ELSE LET node == Last(p.stack)
             q == [p EXCEPT !.stack = Pop(p.stack)]
         IN IF node.node = "section" THEN enclose(q, node.enclosure)
            ELSE IF node.node = "function"
            THEN paren_binding_effect([q EXCEPT !.expression = Push(q.expression, ExprCast(node.function))], token)
            ELSE IF node.node = "binary_function"
            THEN paren_binding_effect([q EXCEPT !.expression = Push(q.expression, ExprTie(node.function))], token)
            ELSE paren_binding_effect(q, token)

operator_binding_effect(p, token) ==
    LET q == [p EXCEPT !.active_ruleset = "placing"]
        operator == BinaryFunction_from_operator(token.content)
    IN IF operator.ok
       THEN LET precedence == BinaryFunction_precedence(operator.value)
                r == FlushPreceding(q, precedence)
            IN [r EXCEPT !.stack = Push(r.stack, StackBinary(operator.value))]
       ELSE Fail(q, operator.error)

identifier_placing_effect(p, token) ==
    IF token.content \in DOMAIN create_constants
    THEN [p EXCEPT !.active_ruleset = "binding",
                   !.expression = Push(p.expression, ExprValue(create_constants[token.content]))]
    ELSE IF token.content \in DOMAIN p.variables
    THEN [p EXCEPT !.active_ruleset = "binding",
                   !.expression = Push(p.expression, ExprValue(p.variables[token.content]))]
    ELSE IF IsSome(Function_from_identifier(token.content))
    THEN [p EXCEPT !.stack = Push(p.stack, StackFunction(Unwrap(Function_from_identifier(token.content))))]
    ELSE IF IsSome(VariedFunction_from_identifier(token.content))
    THEN [p EXCEPT !.placing = Ruleset_push(p.placing, <<"list_placing">>),
                   !.stack = Push(p.stack, StackVaried(Unwrap(VariedFunction_from_identifier(token.content)), 0))]
    ELSE Fail(p, CalcError("undefined", token.content))

list_placing_effect(p, token) ==
    IF token.content /= <<"(">>
    THEN Fail(p, CalcError("did_not_expect", token.content))
    ELSE LET q == enclose([p EXCEPT !.placing = Ruleset_reset(p.placing)], "listed")
         IN [q EXCEPT !.stack = Push(q.stack, StackSection(q.enclosure))]

\* the section arm of arg_binding: the node under the section is popped, and
\* pushed back (counted) with the section only if it is a varied function
arg_binding_section(q, enclosure) ==
    IF q.stack = <<>> THEN q
    ELSE LET under == Last(q.stack)
         IN IF under.node = "varied_function"
            THEN [q EXCEPT !.stack = Push(Push(Pop(q.stack), StackVaried(under.function, under.count + 1)),
                                          StackSection(enclosure))]
            ELSE [q EXCEPT !.stack = Pop(q.stack)]

RECURSIVE arg_binding_loop(_)
arg_binding_loop(p) ==
    IF p.stack = <<>> THEN p
    ELSE LET node == Last(p.stack)
             q == [p EXCEPT !.stack = Pop(p.stack)]
         IN IF node.node = "section" THEN arg_binding_section(q, node.enclosure)
            ELSE IF node.node = "function"
            THEN arg_binding_loop([q EXCEPT !.expression = Push(q.expression, ExprCast(node.function))])
            ELSE IF node.node = "binary_function"
            THEN arg_binding_loop([q EXCEPT !.expression = Push(q.expression, ExprTie(node.function))])
            ELSE arg_binding_loop(q)

arg_binding_effect(p, token) ==
    arg_binding_loop([p EXCEPT !.active_ruleset = "placing"])

\* the section arm of list_binding: the node under the section is popped, and
\* emitted as a knot only if it is a varied function
list_binding_section(q) ==
    IF q.stack = <<>> THEN q
    ELSE LET under == Last(q.stack)
         IN IF under.node = "varied_function"
            THEN [q EXCEPT !.stack = Pop(q.stack),
                           !.expression = Push(q.expression, ExprVaried(under.function, under.count + 1))]
            ELSE [q EXCEPT !.stack = Pop(q.stack)]

RECURSIVE list_binding_effect(_, _)
list_binding_effect(p, token) ==
    IF p.stack = <<>> THEN p
    ELSE LET node == Last(p.stack)
             q == [p EXCEPT !.stack = Pop(p.stack)]
         IN IF node.node = "section" THEN list_binding_section(q)
            ELSE IF node.node = "function"
            THEN list_binding_effect([q EXCEPT !.expression = Push(q.expression, ExprCast(node.function))], token)
            ELSE IF node.node = "binary_function"
            THEN list_binding_effect([q EXCEPT !.expression = Push(q.expression, ExprTie(node.function))], token)
            ELSE list_binding_effect(q, token)

\* variant: every name at the start of a line is taken as a variable
assign_placing_unreserved(p, token) ==
    [p EXCEPT !.active_ruleset = "binding",
              !.binding = Ruleset_push(p.binding, <<"assign_binding">>),
              !.stack = Push(p.stack, StackVariable(token.content))]

assign_placing_effect(p, token) ==
    IF token.content \in DOMAIN create_constants
    THEN [p EXCEPT !.active_ruleset = "binding",
                   !.expression = Push(p.expression, ExprValue(create_constants[token.content]))]
    ELSE IF IsSome(Function_from_identifier(token.content))
    THEN [p EXCEPT !.stack = Push(p.stack, StackFunction(Unwrap(Function_from_identifier(token.content))))]
    ELSE IF IsSome(VariedFunction_from_identifier(token.content))
    THEN [p EXCEPT !.placing = Ruleset_push(p.placing, <<"list_placing">>),
                   !.stack = Push(p.stack, StackVaried(Unwrap(VariedFunction_from_identifier(token.content)), 0))]
    ELSE [p EXCEPT !.active_ruleset = "binding",
                   !.binding = Ruleset_push(p.binding, <<"assign_binding">>),
                   !.stack = Push(p.stack, StackVariable(token.content))]

\* variant: '=' writes the assign node to the output at once
assign_binding_emits(p, token) ==
    IF p.stack /= <<>> /\ Last(p.stack).node = "variable"
    THEN LET identifier == Last(p.stack).identifier
             q == [p EXCEPT !.stack = Pop(p.stack)]
         IN IF token.content = <<"=">>
            THEN [q EXCEPT !.active_ruleset = "placing",
                           !.expression = Push(q.expression, ExprAssign(identifier)),
                           !.binding = Ruleset_reset(q.binding)]
            ELSE IF identifier \in DOMAIN q.variables
            THEN operator_binding_effect(
                     [q EXCEPT !.expression = Push(q.expression, ExprValue(q.variables[identifier]))], token)
            ELSE Fail(q, CalcError("undefined", identifier))
    ELSE [p EXCEPT !.result = Panic("Expected variable at top of stack")]

\* variant: '=' declares the variable in the mapping while parsing
assign_binding_declares(p, token) ==
    IF p.stack /= <<>> /\ Last(p.stack).node = "variable"
    THEN LET identifier == Last(p.stack).identifier
             q == [p EXCEPT !.stack = Pop(p.stack)]
         IN IF token.content = <<"=">>
            THEN [q EXCEPT !.active_ruleset = "placing",
                           !.stack = Push(q.stack, StackAssign(identifier)),
                           !.binding = Ruleset_reset(q.binding),
                           !.variables = [k \in DOMAIN q.variables \cup {identifier} |->
                                             IF k = identifier THEN Int2Val(0) ELSE q.variables[k]]]
            ELSE IF identifier \in DOMAIN q.variables
            THEN operator_binding_effect(
                     [q EXCEPT !.expression = Push(q.expression, ExprValue(q.variables[identifier]))], token)
            ELSE Fail(q, CalcError("undefined", identifier))
    ELSE [p EXCEPT !.result = Panic("Expected variable at top of stack")]

assign_binding_effect(p, token) ==
    IF p.stack /= <<>> /\ Last(p.stack).node = "variable"
    THEN LET identifier == Last(p.stack).identifier
             q == [p EXCEPT !.stack = Pop(p.stack)]
         IN IF token.content = <<"=">>
            THEN [q EXCEPT !.active_ruleset = "placing",
                           !.stack = Push(q.stack, StackAssign(identifier)),
                           !.binding = Ruleset_reset(q.binding)]
            ELSE IF identifier \in DOMAIN q.variables
            THEN operator_binding_effect(
                     [q EXCEPT !.expression = Push(q.expression, ExprValue(q.variables[identifier]))], token)
            ELSE Fail(q, CalcError("undefined", identifier))
    ELSE [p EXCEPT !.result = Panic("Expected variable at top of stack")]

\* Rule.cause
Cause(rule, token) ==
    CASE rule = "value_placing" -> token.kind = "number"
      [] rule = "operator_placing" -> token.kind = "operator"
      [] rule = "paren_placing" -> token.content = <<"(">>
      [] rule = "paren_binding" -> token.content = <<")">>
      [] rule = "operator_binding" -> token.kind = "operator"
      [] rule = "identifier_placing" -> token.kind = "identifier"
      [] rule = "list_placing" -> TRUE
      [] rule = "arg_binding" -> token.content = <<",">>
      [] rule = "list_binding" -> token.content = <<")">>
      [] rule = "assign_placing" -> token.kind = "identifier"
      [] rule = "assign_binding" -> token.kind = "operator"

\* Rule.effect
Effect(rule, p, token) ==
    CASE rule = "value_placing" -> value_placing_effect(p, token)
      [] rule = "operator_placing" -> operator_placing_effect(p, token)
      [] rule = "paren_placing" -> paren_placing_effect(p, token)
      [] rule = "paren_binding" -> paren_binding_effect(p, token)
      [] rule = "operator_binding" -> operator_binding_effect(p, token)
      [] rule = "identifier_placing" -> identifier_placing_effect(p, token)
      [] rule = "list_placing" -> list_placing_effect(p, token)
      [] rule = "arg_binding" -> arg_binding_effect(p, token)
      [] rule = "list_binding" -> list_binding_effect(p, token)
      [] rule = "assign_placing" -> assign_placing_effect(p, token)
      [] rule = "assign_binding" -> assign_binding_effect(p, token)

\* rules.iter().rev().flatten(): the innermost overlay first, each overlay in order
RECURSIVE Flatten(_)
Flatten(rules) ==
    IF rules = <<>> THEN <<>> ELSE Last(rules) \o Flatten(Pop(rules))

\* Ruleset::applies: the first rule whose cause holds
Ruleset_applies(rules, token) ==
    LET flat == Flatten(rules)
        hits == {i \in 1..Len(flat) : Cause(flat[i], token)}
    IN IF hits = {} THEN None
       ELSE Some(flat[CHOOSE i \in hits : \A j \in hits : i <= j])

\* Context::apply
Context_apply(p, token) ==
    LET rule == Ruleset_applies(IF p.active_ruleset = "placing" THEN p.placing ELSE p.binding, token)
    IN IF IsSome(rule) THEN Effect(Unwrap(rule), p, token)
       ELSE Fail(p, CalcError("did_not_expect", token.content))

\* Yard::finalize
RECURSIVE finalize_loop(_)
finalize_loop(p) ==
    IF p.stack = <<>> THEN p
    ELSE LET node == Last(p.stack)
             q == [p EXCEPT !.stack = Pop(p.stack)]
         IN CASE node.node = "section" -> Fail(q, CalcError("could_not_find", <<")">>))
              [] node.node = "function" ->
                   finalize_loop([q EXCEPT !.expression = Push(q.expression, ExprCast(node.function))])
              [] node.node = "binary_function" ->
                   finalize_loop([q EXCEPT !.expression = Push(q.expression, ExprTie(node.function))])
              [] node.node = "varied_function" ->
                   [q EXCEPT !.result = Panic("did not expect varied function")]
              [] node.node = "variable" ->
                   IF node.identifier \in DOMAIN q.variables
                   THEN finalize_loop([q EXCEPT !.expression = Push(q.expression, ExprValue(q.variables[node.identifier]))])
                   ELSE Fail(q, CalcError("undefined", node.identifier))
              [] node.node = "assign" ->
                   finalize_loop([q EXCEPT !.expression = Push(q.expression, ExprAssign(node.identifier))])

\* variant: the end of the line is accepted while a value is still expected
finalize_unchecked(p) == finalize_loop(p)

\* variant: the stack is unwound first and the end of the line is checked last
finalize_stack_first(p) ==
    LET q == finalize_loop(p)
    IN IF q.result.status /= "Ok" THEN q
       ELSE IF p.active_ruleset = "placing" THEN Fail(q, CalcError("abrupt_end", <<>>))
       ELSE q

finalize(p) ==
    IF p.active_ruleset = "placing" THEN Fail(p, CalcError("abrupt_end", <<>>))
    ELSE finalize_loop(p)

\* one iteration of the loop of parse: token?, context.apply(..)?, and the
\* reset of the placing overlays after the first token
parse_token(p, item, first) ==
    IF item.kind = "invalid_character" THEN Fail(p, CalcError("invalid_character", item.content))
    ELSE LET q == Context_apply(p, item)
         IN IF q.result.status /= "Ok" THEN q
            ELSE IF first THEN [q EXCEPT !.placing = Ruleset_reset(q.placing)]
            ELSE q

\* parse's loop from token i on, then finalize: the first error ends the call
RECURSIVE parse_tokens(_, _, _)
parse_tokens(p, toks, i) ==
    IF i > Len(toks) THEN finalize(p)
    ELSE LET q == parse_token(p, toks[i], i = 1)
         IN IF q.result.status /= "Ok" THEN q ELSE parse_tokens(q, toks, i + 1)

\* the state of parse's loop after the first n tokens (n < Len(toks), no
\* finalize), or at the first error before
RECURSIVE parse_loop(_, _, _, _)
parse_loop(p, toks, i, n) ==
    IF i > n THEN p
    ELSE LET q == parse_token(p, toks[i], i = 1)
         IN IF q.result.status /= "Ok" THEN q ELSE parse_loop(q, toks, i + 1, n)

\* what parse returns for the tokens against the mapping: the program, an
\* error or a panic
parse_result(toks, mapping) ==
    LET p == parse_tokens(NewParse(mapping), toks, 1)
    IN IF p.result.status = "Ok" THEN [status |-> "Ok", expression |-> p.expression] ELSE p.result

(***************************************************************************)
(* evaluate (evaluating.rs 5-36): one node of the program on the slots.    *)
(* A step is [ok, slots, variables]; ok is FALSE when an unwrap() finds no *)
(* value.                                                                  *)
(***************************************************************************)
\* variant: the mapping is replaced by the one entry instead of extended
Insert_replacing(variables, identifier, value) == [k \in {identifier} |-> value]

Insert(variables, identifier, value) ==
    [k \in DOMAIN variables \cup {identifier} |-> IF k = identifier THEN value ELSE variables[k]]

\* the values popped by a knot, in the order they are popped
RECURSIVE PopMany(_, _)
PopMany(slots, count) ==
    IF count = 0 THEN <<>> ELSE <<Last(slots)>> \o PopMany(Pop(slots), count - 1)

evaluate_assign(slots, variables, identifier) ==
    IF slots = <<>> THEN [ok |-> FALSE, slots |-> slots, variables |-> variables]
    ELSE [ok |-> TRUE, slots |-> slots, variables |-> Insert(variables, identifier, slots[1])]

evaluate_node(node, slots, variables) ==
    CASE node.node = "value" ->
           [ok |-> TRUE, slots |-> Push(slots, node.value), variables |-> variables]
      [] node.node = "cast" ->
           IF Len(slots) < 1 THEN [ok |-> FALSE, slots |-> slots, variables |-> variables]
           ELSE [ok |-> TRUE,
                 slots |-> Push(Pop(slots), Function_call(node.action, Last(slots))),
                 variables |-> variables]
      [] node.node = "tie" ->
           IF Len(slots) < 2 THEN [ok |-> FALSE, slots |-> slots, variables |-> variables]
           ELSE LET right == Last(slots)
                    left == Last(Pop(slots))
                IN [ok |-> TRUE,
                    slots |-> Push(Pop(Pop(slots)), BinaryFunction_call(node.action, left, right)),
                    variables |-> variables]
      [] node.node = "knot" ->
           IF Len(slots) < node.count THEN [ok |-> FALSE, slots |-> slots, variables |-> variables]
           ELSE [ok |-> TRUE,
                 slots |-> Push(SubSeq(slots, 1, Len(slots) - node.count),
                                VariedFunction_call(node.action, PopMany(slots, node.count))),
                 variables |-> variables]
      [] node.node = "assign" -> evaluate_assign(slots, variables, node.identifier)

(***************************************************************************)
(* The session: lines are parsed and evaluated one after the other against *)
(* one variable mapping.                                                   *)
(***************************************************************************)
VARIABLES
    variables,       \* the variable mapping: name -> value
    parse,           \* the Context and Yard of the running parse call
    is_first_token,  \* parse's flag
    line,            \* the items the scanner has yielded for this line
    pc,              \* "parse", "evaluate", "done", "failed" or "panicked"
    slots,           \* evaluate's value stack
    ip,              \* the index of evaluate's next node
    result,          \* what the last finished call returned
    tokens_used,     \* items yielded in this session
    lines_read,      \* lines started in this session
    scanner          \* the StringScanner of a line that is scanned on its own

vars == <<variables, parse, is_first_token, line, pc, slots, ip, result, tokens_used, lines_read, scanner>>

Operator(c) == Token(<<c>>, "operator")
Punctuation(c) == Token(<<c>>, "punctuation")
Number(content) == Token(content, "number")
Identifier(content) == Token(content, "identifier")
\* the scanner's Err item for a character of no class
InvalidCharacter(c) == [content |-> <<c>>, kind |-> "invalid_character"]

Name_x == <<"x">>
Name_y == <<"y">>

(***************************************************************************)
(* The scanner (scanning.rs).  A string is a sequence of characters; index *)
(* counts bytes, as in the code, and a character has one byte or, like     *)
(* "é", two.  Slicing a str off a character boundary panics.               *)
(***************************************************************************)
Width(c) == IF c = "é" THEN 2 ELSE 1

RECURSIVE Bytes(_)
Bytes(chars) == IF chars = <<>> THEN 0 ELSE Width(Head(chars)) + Bytes(Tail(chars))

is_operator(c) == c \in {"+", "-", "*", "/", "^", "="}
is_punctuation(c) == c \in {"(", ")", ","}
is_digit_or_dot(c) == c \in Digits \/ c = "."
is_alphabetic(c) == c \in {"x", "y", "é"}
is_whitespace(c) == c = " "

Holds(predicate, c) ==
    CASE predicate = "is_operator" -> is_operator(c)
      [] predicate = "is_punctuation" -> is_punctuation(c)
      [] predicate = "is_digit_or_dot" -> is_digit_or_dot(c)
      [] predicate = "is_alphabetic" -> is_alphabetic(c)
      [] predicate = "is_whitespace" -> is_whitespace(c)

\* the characters of chars before byte offset: Some(k) when the offset is
\* the boundary after k characters, None when it falls inside a character
\* or beyond the end
CharsAt(chars, offset) ==
    LET ks == {k \in 0..Len(chars) : Bytes(SubSeq(chars, 1, k)) = offset}
    IN IF ks = {} THEN None ELSE Some(CHOOSE k \in ks : TRUE)

\* &self.string[self.index..]: index is a boundary wherever view is called
view(self) == SubSeq(self.string, Unwrap(CharsAt(self.string, self.index)) + 1, Len(self.string))

RECURSIVE CountWhile(_, _)
CountWhile(chars, predicate) ==
    IF chars = <<>> \/ ~Holds(predicate, Head(chars)) THEN 0
    ELSE 1 + CountWhile(Tail(chars), predicate)

count_while(self, predicate) == CountWhile(view(self), predicate)

\* index += the number of whitespace characters
skip_whitespace(self) == [self EXCEPT !.index = self.index + count_while(self, "is_whitespace")]

StringScanner_new(string) == skip_whitespace([string |-> string, index |-> 0, panicked |-> FALSE])

\* the first count BYTES of the view, and index += count; [self, slice]
slice_while(self, predicate) ==
    LET count == count_while(self, predicate)
        cut == CharsAt(view(self), count)
    IN IF IsSome(cut)
       THEN [self |-> [self EXCEPT !.index = self.index + count],
             slice |-> SubSeq(view(self), 1, Unwrap(cut))]
       ELSE [self |-> [self EXCEPT !.panicked = TRUE], slice |-> <<>>]

\* [self, token]: token is None when no character matches
slice_many_as(self, predicate, kind) ==
    LET sliced == slice_while(self, predicate)
    IN IF sliced.slice = <<>> THEN [self |-> sliced.self, token |-> None]
       ELSE [self |-> sliced.self, token |-> Some(Token(sliced.slice, kind))]

\* the first byte of the view, when its first character matches (the
\* characters of the two predicates it is used with have one byte)
slice_once_as(self, predicate, kind) ==
    IF view(self) /= <<>> /\ Holds(predicate, Head(view(self)))
    THEN [self |-> [self EXCEPT !.index = self.index + 1],
          token |-> Some(Token(SubSeq(view(self), 1, 1), kind))]
    ELSE [self |-> self, token |-> None]

peel_number(self) == slice_many_as(self, "is_digit_or_dot", "number")
peel_operator(self) == slice_once_as(self, "is_operator", "operator")
peel_punctuation(self) == slice_once_as(self, "is_punctuation", "punctuation")
peel_identifier(self) == slice_many_as(self, "is_alphabetic", "identifier")

is_empty(self) == view(self) = <<>>

\* [self, item]: item is None at the end of the string, else Some of a token
\* or of the Err item of an invalid character
peel(self) ==
    IF is_empty(self) THEN [self |-> self, item |-> None]
    ELSE LET number == peel_number(self)
             operator == peel_operator(self)
             punctuation == peel_punctuation(self)
             identifier == peel_identifier(self)
         IN IF number.self.panicked \/ IsSome(number.token) THEN [self |-> number.self, item |-> number.token]
            ELSE IF IsSome(operator.token) THEN [self |-> operator.self, item |-> operator.token]
            ELSE IF IsSome(punctuation.token) THEN [self |-> punctuation.self, item |-> punctuation.token]
            ELSE IF identifier.self.panicked \/ IsSome(identifier.token)
            THEN [self |-> identifier.self, item |-> identifier.token]
            ELSE [self |-> self, item |-> Some(InvalidCharacter(Head(view(self))))]

\* Iterator::next: peel, then skip_whitespace
Iterator_next(self) ==
    LET peeling == peel(self)
    IN IF peeling.self.panicked THEN peeling
       ELSE [self |-> skip_whitespace(peeling.self), item |-> peeling.item]

\* the context's variables are the caller's mapping: the state keeps the
\* mapping once, in variables, and the rest of the call's record in parse
Locals(p) == [f \in DOMAIN p \ {"variables"} |-> p[f]]
Running(locals, mapping) ==
    [f \in DOMAIN locals \cup {"variables"} |-> IF f = "variables" THEN mapping ELSE locals[f]]

Init ==
    /\ variables = <<>>
    /\ parse = Locals(NewParse(<<>>))
    /\ is_first_token = TRUE
    /\ line = <<>>
    /\ pc = "parse"
    /\ slots = <<>>
    /\ ip = 1
    /\ result = None
    /\ tokens_used = 0
    /\ lines_read = 1
    /\ scanner = StringScanner_new(<<>>)

\* variant: the loop goes on to the next token after an error
PcAfter_continue(p) == IF p.result.status = "Panic" THEN "panicked" ELSE "parse"

PcAfter(p) ==
    IF p.result.status = "Ok" THEN "parse"
    ELSE IF p.result.status = "Err" THEN "failed" ELSE "panicked"

\* the scanner yields one more item and parse's loop body runs on it
Dispatch(item, maxTokens) ==
    /\ pc = "parse"
    /\ tokens_used < maxTokens
    /\ LET p == parse_token(Running(parse, variables), item, is_first_token)
       IN /\ parse' = Locals(p)
          /\ variables' = p.variables
          /\ pc' = PcAfter(p)
          /\ result' = IF p.result.status = "Ok" THEN result ELSE p.result
    /\ is_first_token' = FALSE
    /\ line' = Append(line, item)
    /\ tokens_used' = tokens_used + 1
    /\ UNCHANGED <<slots, ip, lines_read, scanner>>

\* the scanner is exhausted: yard.finalize, and parse returns
EndOfLine ==
    /\ pc = "parse"
    /\ LET p == finalize(Running(parse, variables))
       IN /\ parse' = Locals(p)
          /\ variables' = p.variables
          /\ pc' = IF p.result.status = "Ok" THEN "evaluate" ELSE PcAfter(p)
          /\ result' = IF p.result.status = "Ok" THEN [status |-> "Ok", expression |-> p.expression]
                       ELSE p.result
    /\ slots' = <<>>
    /\ ip' = 1
    /\ UNCHANGED <<is_first_token, line, tokens_used, lines_read, scanner>>

\* one iteration of evaluate's loop
EvaluateNode ==
    /\ pc = "evaluate"
    /\ ip <= Len(parse.expression)
    /\ LET step == evaluate_node(parse.expression[ip], slots, variables)
       IN /\ slots' = step.slots
          /\ variables' = step.variables
          /\ pc' = IF step.ok THEN "evaluate" ELSE "panicked"
          /\ result' = IF step.ok THEN result ELSE Panic("unwrap on None")
    /\ ip' = ip + 1
    /\ UNCHANGED <<parse, is_first_token, line, tokens_used, lines_read, scanner>>

\* evaluate returns *slots.first().unwrap()
EvaluateReturn ==
    /\ pc = "evaluate"
    /\ ip > Len(parse.expression)
    /\ pc' = IF slots = <<>> THEN "panicked" ELSE "done"
    /\ result' = IF slots = <<>> THEN Panic("unwrap on None") ELSE [status |-> "Ok", value |-> slots[1]]
    /\ UNCHANGED <<variables, parse, is_first_token, line, slots, ip, tokens_used, lines_read, scanner>>

\* the next line is read: a new parse call on the same variable mapping
NextLine ==
    /\ pc \in {"done", "failed"}
    /\ lines_read < MaxLines
    /\ parse' = Locals(NewParse(variables))
    /\ is_first_token' = TRUE
    /\ line' = <<>>
    /\ pc' = "parse"
    /\ slots' = <<>>
    /\ ip' = 1
    /\ lines_read' = lines_read + 1
    /\ UNCHANGED <<variables, result, tokens_used, scanner>>

\* one line: parse, then evaluate
LineStep(alphabet, maxTokens) ==
    \/ \E item \in alphabet : Dispatch(item, maxTokens)
    \/ EndOfLine
    \/ EvaluateNode
    \/ EvaluateReturn

(***************************************************************************)
(* Spec: a session of lines over tokens of every class.                    *)
(***************************************************************************)
Alphabet ==
    {Number(<<"2">>),
     Operator("-"), Operator("^"), Operator("="),
     Punctuation("("), Punctuation(")"), Punctuation(","),
     Identifier(Name_x), Identifier(Name_y), Identifier(Name_max), Identifier(Name_floor),
     InvalidCharacter("$")}

Next == LineStep(Alphabet, MaxTokens) \/ NextLine

Spec == Init /\ [][Next]_vars

(***************************************************************************)
(* SpecCall: one line of variadic calls, grouping and assignment.          *)
(***************************************************************************)
CallAlphabet ==
    {Number(<<"2">>), Number(<<"3">>),
     Operator("-"), Operator("="),
     Punctuation("("), Punctuation(")"), Punctuation(","),
     Identifier(Name_x), Identifier(Name_max)}

NextCall == LineStep(CallAlphabet, MaxCallTokens)

SpecCall == Init /\ [][NextCall]_vars

(***************************************************************************)
(* SpecArith: one line of number literals and binary operators.            *)
(***************************************************************************)
ArithAlphabet ==
    {Number(<<"2">>), Number(<<"3">>), Number(<<"4">>),
     Operator("+"), Operator("-"), Operator("*"), Operator("/"), Operator("^")}

NextArith == LineStep(ArithAlphabet, MaxArithTokens)

SpecArith == Init /\ [][NextArith]_vars

(***************************************************************************)
(* SpecGroup: one line of number literals, binary operators and grouping   *)
(* parentheses.                                                            *)
(***************************************************************************)
GroupAlphabet ==
    {Number(<<"2">>), Number(<<"3">>), Number(<<"4">>),
     Operator("+"), Operator("*"), Operator("^"),
     Punctuation("("), Punctuation(")")}

NextGroup == LineStep(GroupAlphabet, MaxGroupTokens)

SpecGroup == Init /\ [][NextGroup]_vars

(***************************************************************************)
(* SpecUnary: one line with unary prefixes and unary functions.            *)
(***************************************************************************)
UnaryAlphabet ==
    {Number(<<"2">>), Number(<<"3">>),
     Operator("-"), Operator("*"), Operator("/"),
     Punctuation("("), Punctuation(")"),
     Identifier(Name_floor)}

NextUnary == LineStep(UnaryAlphabet, MaxUnaryTokens)

SpecUnary == Init /\ [][NextUnary]_vars

(***************************************************************************)
(* SpecVar: one line parsed and evaluated against a mapping that earlier   *)
(* assignments have left.                                                  *)
(***************************************************************************)
VarMappings ==
    {<<>>} \cup {[k \in {Name_x} |-> Int2Val(v)] : v \in {2, 3}}

InitVar ==
    /\ variables \in VarMappings
    /\ parse = Locals(NewParse(variables))
    /\ is_first_token = TRUE
    /\ line = <<>>
    /\ pc = "parse"
    /\ slots = <<>>
    /\ ip = 1
    /\ result = None
    /\ tokens_used = 0
    /\ lines_read = 1
    /\ scanner = StringScanner_new(<<>>)

VarAlphabet ==
    {Number(<<"2">>), Number(<<"3">>),
     Operator("-"), Operator("*"), Operator("="),
     Punctuation("("), Punctuation(")"),
     Identifier(Name_x), Identifier(Name_y),
     InvalidCharacter("$")}

NextVar == LineStep(VarAlphabet, MaxVarTokens)

SpecVar == InitVar /\ [][NextVar]_vars

(***************************************************************************)
(* SpecNames: a session of lines over constant names, function names and   *)
(* a plain name.                                                           *)
(***************************************************************************)
NameAlphabet ==
    {Number(<<"2">>),
     Operator("-"), Operator("="),
     Identifier(Name_pi), Identifier(Name_e), Identifier(Name_floor), Identifier(Name_max),
     Identifier(Name_x)}

NextNames == LineStep(NameAlphabet, MaxNameTokens) \/ NextLine

SpecNames == Init /\ [][NextNames]_vars

(***************************************************************************)
(* SpecScan: the scanner of one source line, pulled item by item, also     *)
(* after it has returned the end of the sequence.                          *)
(***************************************************************************)
SourceChars == {"2", ".", "-", "(", "x", " ", "$", "é"}

Sources == UNION {[1..n -> SourceChars] : n \in 0..MaxSourceLen}

InitScan ==
    /\ scanner \in {StringScanner_new(string) : string \in Sources}
    /\ variables = <<>>
    /\ parse = Locals(NewParse(<<>>))
    /\ is_first_token = TRUE
    /\ line = <<>>
    /\ pc = "scan"
    /\ slots = <<>>
    /\ ip = 1
    /\ result = None
    /\ tokens_used = 0
    /\ lines_read = 1

\* one call of next: line collects the items it has returned
Pull ==
    /\ pc = "scan"
    /\ tokens_used < MaxPulls
    /\ LET pulled == Iterator_next(scanner)
       IN /\ scanner' = pulled.self
          /\ pc' = IF pulled.self.panicked THEN "panicked" ELSE "scan"
          /\ result' = IF pulled.self.panicked THEN Panic("byte index is not a char boundary")
                       ELSE pulled.item
          /\ line' = IF ~pulled.self.panicked /\ IsSome(pulled.item) THEN Append(line, Unwrap(pulled.item))
                     ELSE line
    /\ tokens_used' = tokens_used + 1
    /\ UNCHANGED <<variables, parse, is_first_token, slots, ip, lines_read>>

NextScan == Pull

SpecScan == InitScan /\ [][NextScan]_vars

(***************************************************************************)
(* The reference grammar of the specification, as a recursive-descent      *)
(* evaluator over a line's tokens:                                         *)
(*   statement := identifier '=' expr | expr                               *)
(*   expr      := term (binop term)*    ^ over * / over + -, ^ to the      *)
(*                                      right, the others to the left      *)
(*   term      := unary* (number | identifier | varied '(' args ')'        *)
(*                        | '(' expr ')')                                  *)
(*   args      := expr (',' expr)*                                         *)
(* A result is [ok, value, next]: next is the first token not consumed.    *)
(***************************************************************************)
RefFail == [ok |-> FALSE, more |-> FALSE, value |-> Unrepresented, next |-> 0]
\* the tokens ended where the grammar wants one more
RefMore == [ok |-> FALSE, more |-> TRUE, value |-> Unrepresented, next |-> 0]
RefOk(value, next) == [ok |-> TRUE, more |-> FALSE, value |-> value, next |-> next]

RefLevel(content) ==
    CASE content \in {<<"+">>, <<"-">>} -> 1
      [] content \in {<<"*">>, <<"/">>} -> 2
      [] content = <<"^">> -> 3

IsBinaryOperator(token) ==
    token.kind = "operator" /\ token.content \in {<<"+">>, <<"-">>, <<"*">>, <<"/">>, <<"^">>}

IsUnaryPrefix(token) ==
    \/ token.kind = "operator" /\ token.content \in {<<"+">>, <<"-">>}
    \/ token.kind = "identifier" /\ IsSome(Function_from_identifier(token.content))

IsVariedName(token) ==
    token.kind = "identifier" /\ IsSome(VariedFunction_from_identifier(token.content))

UnaryOf(token) ==
    IF token.kind = "operator" THEN Function_from_operator(token.content).value
    ELSE Unwrap(Function_from_identifier(token.content))

\* r, once the token c has been read at r.next
RefExpect(toks, r, c) ==
    IF r.next > Len(toks) THEN RefMore
    ELSE IF toks[r.next].content = c THEN [r EXCEPT !.next = r.next + 1]
    ELSE RefFail

RECURSIVE RefTerm(_, _, _)
RECURSIVE RefExpr(_, _, _, _)
RECURSIVE RefClimb(_, _, _, _)
RECURSIVE RefArgs(_, _, _, _)

RefTerm(toks, i, mapping) ==
    IF i > Len(toks) THEN RefMore
    ELSE LET t == toks[i]
         IN IF t.kind = "number"
            THEN (IF IsSome(ParseF32(t.content)) THEN RefOk(Unwrap(ParseF32(t.content)), i + 1) ELSE RefFail)
            ELSE IF IsUnaryPrefix(t)
            THEN LET r == RefTerm(toks, i + 1, mapping)
                 IN IF r.ok THEN [r EXCEPT !.value = Function_call(UnaryOf(t), r.value)] ELSE r
            ELSE IF IsVariedName(t)
            THEN LET open == RefExpect(toks, RefOk(Unrepresented, i + 1), <<"(">>)
                     r == RefArgs(toks, i + 2, mapping, <<>>)
                 IN IF ~open.ok THEN open
                    ELSE IF r.ok
                    THEN [r EXCEPT !.value = VariedFunction_call(
                                                 Unwrap(VariedFunction_from_identifier(t.content)), r.value)]
                    ELSE r
            ELSE IF t.kind = "identifier"
            THEN (IF t.content \in DOMAIN create_constants THEN RefOk(create_constants[t.content], i + 1)
                  ELSE IF t.content \in DOMAIN mapping THEN RefOk(mapping[t.content], i + 1)
                  ELSE RefFail)
            ELSE IF t.content = <<"(">>
            THEN LET r == RefExpr(toks, i + 1, 1, mapping)
                 IN IF r.ok THEN RefExpect(toks, r, <<")">>) ELSE r
            ELSE RefFail

RefExpr(toks, i, minLevel, mapping) ==
    LET lhs == RefTerm(toks, i, mapping)
    IN IF lhs.ok THEN RefClimb(toks, lhs, minLevel, mapping) ELSE lhs

RefClimb(toks, lhs, minLevel, mapping) ==
    IF lhs.next <= Len(toks) /\ IsBinaryOperator(toks[lhs.next]) /\ RefLevel(toks[lhs.next].content) >= minLevel
    THEN LET content == toks[lhs.next].content
             level == RefLevel(content)
             rhs == RefExpr(toks, lhs.next + 1, IF content = <<"^">> THEN level ELSE level + 1, mapping)
         IN IF rhs.ok
            THEN RefClimb(toks,
                          RefOk(BinaryFunction_call(BinaryFunction_from_operator(content).value, lhs.value, rhs.value),
                                rhs.next),
                          minLevel, mapping)
            ELSE rhs
    ELSE lhs

\* the values of the arguments, and next after the closing ')'
RefArgs(toks, i, mapping, acc) ==
    LET r == RefExpr(toks, i, 1, mapping)
    IN IF ~r.ok THEN r
       ELSE IF r.next > Len(toks) THEN RefMore
       ELSE IF toks[r.next].content = <<",">> THEN RefArgs(toks, r.next + 1, mapping, Append(acc, r.value))
       ELSE IF toks[r.next].content = <<")">> THEN RefOk(Append(acc, r.value), r.next + 1)
       ELSE RefFail

\* toks is one whole expression of the grammar
IsExpression(toks, mapping) ==
    LET r == RefExpr(toks, 1, 1, mapping) IN r.ok /\ r.next = Len(toks) + 1

ExpressionValue(toks, mapping) == RefExpr(toks, 1, 1, mapping).value

\* toks is an expression of the grammar or the start of one
IsViable(toks, mapping) ==
    LET r == RefExpr(toks, 1, 1, mapping) IN IF r.ok THEN r.next = Len(toks) + 1 ELSE r.more

\* an identifier that is no constant and no function name
IsPlainName(token) ==
    /\ token.kind = "identifier"
    /\ token.content \notin DOMAIN create_constants
    /\ ~IsSome(Function_from_identifier(token.content))
    /\ ~IsSome(VariedFunction_from_identifier(token.content))

\* toks is name '=' expr
IsAssignment(toks, mapping) ==
    /\ Len(toks) >= 3
    /\ IsPlainName(toks[1])
    /\ toks[2].kind = "operator" /\ toks[2].content = <<"=">>
    /\ IsExpression(SubSeq(toks, 3, Len(toks)), mapping)

(***************************************************************************)
(* Shapes of lines.                                                        *)
(***************************************************************************)
IsNumberToken(token) == token.kind = "number"
IsParen(token) == token.kind = "punctuation" /\ token.content \in {<<"(">>, <<")">>}
IsComma(token) == token.kind = "punctuation" /\ token.content = <<",">>

\* a '+' or '-' where a value may start, or a unary function name
UsesUnary(toks) ==
    \E i \in 1..Len(toks) :
        /\ IsUnaryPrefix(toks[i])
        /\ \/ toks[i].kind = "identifier"
           \/ i = 1
           \/ toks[i - 1].kind = "operator"
           \/ toks[i - 1].content \in {<<"(">>, <<",">>}

\* number literals alternating with binary operators, starting with a number
ArithLine(toks) ==
    \A i \in 1..Len(toks) : IF i % 2 = 1 THEN IsNumberToken(toks[i]) ELSE IsBinaryOperator(toks[i])

\* number literals, binary operators and grouping parentheses of the grammar
GroupLine(toks) ==
    /\ \A i \in 1..Len(toks) : IsNumberToken(toks[i]) \/ IsBinaryOperator(toks[i]) \/ IsParen(toks[i])
    /\ \E i \in 1..Len(toks) : IsParen(toks[i])
    /\ ~UsesUnary(toks)
    /\ IsViable(toks, <<>>)

\* variadic calls over number literals, binary operators and parentheses
CallLine(toks) ==
    /\ \A i \in 1..Len(toks) :
           \/ IsNumberToken(toks[i]) \/ IsBinaryOperator(toks[i])
           \/ IsParen(toks[i]) \/ IsComma(toks[i]) \/ IsVariedName(toks[i])
    /\ \E i \in 1..Len(toks) : IsVariedName(toks[i])
    /\ ~UsesUnary(toks)
    /\ IsViable(toks, <<>>)

\* unary prefixes and functions over number literals, binary operators and
\* parentheses
UnaryLine(toks) ==
    /\ \A i \in 1..Len(toks) :
           \/ IsNumberToken(toks[i]) \/ IsBinaryOperator(toks[i])
           \/ IsParen(toks[i]) \/ IsUnaryPrefix(toks[i])
    /\ UsesUnary(toks)
    /\ IsViable(toks, <<>>)

\* the '(' minus the ')' among the first i tokens
RECURSIVE Depth(_, _)
Depth(toks, i) ==
    IF i = 0 THEN 0
    ELSE Depth(toks, i - 1) + (IF toks[i].content = <<"(">> THEN 1 ELSE IF toks[i].content = <<")">> THEN -1 ELSE 0)

\* the arities (commas + 1) of the calls of a line, in the order they close;
\* frames holds the commas of each open call and -1 for each open grouping
RECURSIVE CallArities(_, _, _)
CallArities(toks, i, frames) ==
    IF i > Len(toks) THEN <<>>
    ELSE IF toks[i].content = <<"(">>
    THEN CallArities(toks, i + 1, Append(frames, IF i > 1 /\ IsVariedName(toks[i - 1]) THEN 0 ELSE -1))
    ELSE IF toks[i].content = <<",">> /\ frames /= <<>>
    THEN CallArities(toks, i + 1, Append(Pop(frames), Last(frames) + 1))
    ELSE IF toks[i].content = <<")">> /\ frames /= <<>>
    THEN (IF Last(frames) >= 0 THEN <<Last(frames) + 1>> ELSE <<>>) \o CallArities(toks, i + 1, Pop(frames))
    ELSE CallArities(toks, i + 1, frames)

(***************************************************************************)
(* Properties.                                                             *)
(***************************************************************************)
ParsePanics == {"Expected variable at top of stack", "did not expect varied function"}

\* the program parse returned, while evaluate runs on it or has returned
Program == parse.expression

HasNode(kind) == \E i \in 1..Len(Program) : Program[i].node = kind

RECURSIVE KnotCounts(_)
KnotCounts(program) ==
    IF program = <<>> THEN <<>>
    ELSE (IF Head(program).node = "knot" THEN <<Head(program).count>> ELSE <<>>) \o KnotCounts(Tail(program))

\* parse has not refused the line, a line of the grammar or the start of one,
\* except at its end for want of the rest
Accepted ==
    pc \in {"failed", "panicked"} =>
        /\ pc = "failed"
        /\ ~IsExpression(line, variables)
        /\ result.error.kind \in {"abrupt_end", "could_not_find"}

\* the value evaluate returned is the value of the line in the grammar
ValueConforms == pc = "done" => result.value = ExpressionValue(line, variables)

\* C1: parse returns a program or a CalcError for every token sequence and
\* every mapping: no parse call ends in one of its two panics.
C1_ParseNeverPanics == ~(pc = "panicked" /\ result.message \in ParsePanics)

\* the operands a node takes from the slots
Operands(node) ==
    CASE node.node = "value" -> 0
      [] node.node = "cast" -> 1
      [] node.node = "tie" -> 2
      [] node.node = "knot" -> node.count
      [] node.node = "assign" -> 1

C3_OneValueLeft == pc = "done" => Len(slots) = 1

\* C4: a line of the grammar with calls to min, max or avg, the call at the
\* start of the line included, is parsed without error, its program holds one
\* knot per call, in the order the calls close, each with the count of its
\* call's arguments, and it evaluates to the value of the line.
C4_CallsEmitTheirKnot ==
    CallLine(line) =>
        /\ Accepted
        /\ ValueConforms
        /\ pc \in {"evaluate", "done"} => KnotCounts(Program) = CallArities(line, 1, <<>>)

\* C5: a line of number literals alternating with binary operators is parsed
\* without error and evaluates to its value in the reference grammar.
C5_ArithmeticFollowsGrammar ==
    ArithLine(line) /\ IsViable(line, <<>>) => Accepted /\ ValueConforms

\* 2 + 3 * 4 has been evaluated to 14
C5_Witness ==
    /\ pc = "done"
    /\ line = <<Number(<<"2">>), Operator("+"), Number(<<"3">>), Operator("*"), Number(<<"4">>)>>
    /\ result.value = Int2Val(14)

\* the markers of the stack up to and with its topmost section
RECURSIVE ThroughTopSection(_)
ThroughTopSection(stack) ==
    IF stack = <<>> \/ Last(stack).node = "section" THEN stack ELSE ThroughTopSection(Pop(stack))

\* the nodes of the binary markers above the topmost section, topmost first
RECURSIVE TiesAboveTopSection(_)
TiesAboveTopSection(stack) ==
    IF stack = <<>> \/ Last(stack).node = "section" THEN <<>>
    ELSE <<ExprTie(Last(stack).function)>> \o TiesAboveTopSection(Pop(stack))

Sections(stack) == Cardinality({i \in 1..Len(stack) : stack[i].node = "section"})

\* while a line of numbers, operators and parentheses is parsed, the stack
\* holds one section per unmatched '('
C6_SectionsMatch ==
    pc = "parse" /\ GroupLine(line) =>
        /\ Sections(parse.stack) = Depth(line, Len(line))
        /\ parse.enclosure = IF Depth(line, Len(line)) = 0 THEN "open" ELSE "nested"

\* an operator dispatched inside parentheses leaves the stack up to the
\* topmost section as it was
C6_OperatorStaysInside ==
    pc = "parse" /\ pc' = "parse" /\ line' /= line /\ GroupLine(line')
        /\ IsBinaryOperator(Last(line')) /\ Sections(parse.stack) > 0
        => /\ ThroughTopSection(parse'.stack) = ThroughTopSection(parse.stack)
           /\ Len(parse'.stack) > Len(ThroughTopSection(parse.stack))

\* a ')' emits every operator pending above the topmost section and removes
\* the section
C6_CloseEmitsInside ==
    pc = "parse" /\ pc' = "parse" /\ line' /= line /\ GroupLine(line')
        /\ Last(line').content = <<")">>
        => /\ parse'.stack = Pop(ThroughTopSection(parse.stack))
           /\ parse'.expression = parse.expression \o TiesAboveTopSection(parse.stack)

\* C6: a line of number literals, binary operators and balanced grouping
\* parentheses is parsed without error and evaluates to its value in the
\* grammar; an operator inside parentheses never flushes one pending outside
\* them, and the matching ')' emits every operator inside.
C6_GroupingIsOneOperand ==
    /\ [](GroupLine(line) => Accepted /\ ValueConforms)
    /\ []C6_SectionsMatch
    /\ [][C6_OperatorStaysInside]_vars
    /\ [][C6_CloseEmitsInside]_vars

\* ( 2 + 3 ) * 4 has been evaluated to 20
C6_Witness ==
    /\ pc = "done"
    /\ line = <<Punctuation("("), Number(<<"2">>), Operator("+"), Number(<<"3">>), Punctuation(")"),
                Operator("*"), Number(<<"4">>)>>
    /\ result.value = Int2Val(20)

\* the name a line assigns: its leading identifier, when '=' follows it
AssignTarget(toks) ==
    IF Len(toks) >= 2 /\ IsPlainName(toks[1]) /\ toks[2].kind = "operator" /\ toks[2].content = <<"=">>
    THEN Some(toks[1].content)
    ELSE None

Mentions(toks, content) == \E i \in 1..Len(toks) : toks[i].content = content

\* C7: after a line name = expr (expr not reading name) has been parsed and
\* evaluated, the mapping holds under name the value returned for the line,
\* and that is the value of expr.
C7_AssignmentStoresValue ==
    LET expr == SubSeq(line, 3, Len(line))
    IN pc = "done" /\ IsSome(AssignTarget(line)) /\ ~Mentions(expr, line[1].content)
          /\ IsExpression(expr, variables)
       => /\ line[1].content \in DOMAIN variables
          /\ variables[line[1].content] = result.value
          /\ result.value = ExpressionValue(expr, variables)

\* C8: no step of a parse call changes the variable mapping.
C8_ParseKeepsMapping == [][pc = "parse" => variables' = variables]_vars

\* a parse call on a mapping that holds a variable has returned a program
\* that assigns
C8_Witness == pc = "evaluate" /\ ip = 1 /\ variables /= <<>> /\ HasNode("assign")

Changed(k) ==
    \/ k \in DOMAIN variables /\ k \notin DOMAIN variables'
    \/ k \notin DOMAIN variables /\ k \in DOMAIN variables'
    \/ k \in DOMAIN variables /\ k \in DOMAIN variables' /\ variables'[k] /= variables[k]

\* C9: a step of a line's cycle adds, overwrites or removes an entry of the
\* mapping only while the line's program is evaluated (so never when its
\* parse failed), and then only the entry of the name the line assigns.
C9_CycleChangesOnlyTarget ==
    [][\A k \in DOMAIN variables \cup DOMAIN variables' :
           Changed(k) => pc = "evaluate" /\ AssignTarget(line) = Some(k)]_vars

\* a second line has assigned a second name
C9_Witness == pc = "done" /\ DOMAIN variables = {Name_x, Name_y} /\ AssignTarget(line) = Some(Name_y)

\* C10: in a line of the grammar with unary prefixes or unary functions,
\* each applies to the term that follows it alone: the line is parsed without
\* error and evaluates to its value in the grammar, where a unary binds
\* tighter than every binary operator.
C10_UnaryAppliesToItsTerm == UnaryLine(line) => Accepted /\ ValueConforms

(***************************************************************************)
(* The parentheses of a line, read off its tokens.                         *)
(***************************************************************************)
\* the kinds of the '(' still unmatched after the tokens, innermost last:
\* "listed" for the '(' of a call to min, max or avg, "nested" for a grouping
RECURSIVE OpenKinds(_, _, _)
OpenKinds(toks, i, kinds) ==
    IF i > Len(toks) THEN kinds
    ELSE IF toks[i].content = <<"(">>
    THEN OpenKinds(toks, i + 1,
                   Append(kinds, IF i > 1 /\ IsVariedName(toks[i - 1]) THEN "listed" ELSE "nested"))
    ELSE IF toks[i].content = <<")">> /\ kinds /= <<>>
    THEN OpenKinds(toks, i + 1, Pop(kinds))
    ELSE OpenKinds(toks, i + 1, kinds)

InnermostKind(toks) ==
    LET kinds == OpenKinds(toks, 1, <<>>)
    IN IF kinds = <<>> THEN "open" ELSE Last(kinds)

OpenCount(toks) == Len(OpenKinds(toks, 1, <<>>))

\* the step dispatches the token: parse's loop body has run on one more item
Dispatched(content) == pc = "parse" /\ Len(line') = Len(line) + 1 /\ Last(line').content = content

\* C11: a ',' is accepted only while the innermost unmatched '(' is the
\* argument list of a call to min, max or avg; anywhere else it makes parse
\* fail with DidNotExpect(",").
C11_CommaOnlyInArguments ==
    [][Dispatched(<<",">>) /\ InnermostKind(line) /= "listed"
          => pc' = "failed" /\ result' = Err(CalcError("did_not_expect", <<",">>))]_vars

\* the number token whose content reads as the value
LiteralOf(value) == Number(CHOOSE c \in {<<d>> : d \in Digits} : ParseF32(c) = Some(value))

\* the line starts with an assigned variable followed by an operator other
\* than '='
StartsWithVariableUse(toks, mapping) ==
    /\ Len(toks) >= 2
    /\ IsPlainName(toks[1]) /\ toks[1].content \in DOMAIN mapping
    /\ toks[2].kind = "operator" /\ toks[2].content /= <<"=">>

\* parse has returned and result is what it returned
ParseReturned ==
    \/ pc \in {"evaluate", "failed"}
    \/ pc = "panicked" /\ result.message \in ParsePanics

\* C12: for a line that starts with an assigned variable followed by an
\* operator other than '=', parse returns what it returns for the same line
\* with the variable replaced by a literal of its value.
C12_VariableUseIsItsValue ==
    ParseReturned /\ StartsWithVariableUse(line, variables)
        => result = parse_result(<<LiteralOf(variables[line[1].content])>> \o Tail(line), variables)

\* the positions of the line where an identifier that is no constant, no
\* function name and no key of the mapping stands for a value (the leading
\* name of name = expr does not)
ValuePosition(toks, i) ==
    \/ i = 1
    \/ toks[i - 1].kind = "operator"
    \/ toks[i - 1].content \in {<<"(">>, <<",">>}
    \/ toks[i - 1].kind = "identifier" /\ IsUnaryPrefix(toks[i - 1])

UndefinedUses(toks, mapping) ==
    {i \in 1..Len(toks) :
        /\ IsPlainName(toks[i])
        /\ toks[i].content \notin DOMAIN mapping
        /\ ValuePosition(toks, i)
        /\ ~(i = 1 /\ IsSome(AssignTarget(toks)))}

Min(set) == CHOOSE i \in set : \A j \in set : i <= j

\* C13: a line that uses an undefined identifier as a value never parses
\* successfully; with no error at an earlier token, parse fails with
\* Undefined of that identifier.
C13_UndefinedIdentifierFails ==
    LET uses == UndefinedUses(line, variables)
    IN uses /= {} =>
           /\ pc \notin {"evaluate", "done"}
           /\ pc \in {"failed", "panicked"} => result = Err(CalcError("undefined", line[Min(uses)].content))

\* the tokens end where a value is still expected: an empty line, or a last
\* token that is an operator, '(' or ',', or the name of a function
ExpectsValue(toks) ==
    \/ toks = <<>>
    \/ Last(toks).kind = "operator"
    \/ Last(toks).content \in {<<"(">>, <<",">>}
    \/ Last(toks).kind = "identifier" /\ (IsUnaryPrefix(Last(toks)) \/ IsVariedName(Last(toks)))

\* the step is the end of the token stream: finalize runs and parse returns
EndsLine == pc = "parse" /\ pc' /= "parse" /\ line' = line

\* C14: when the tokens end with no earlier error, parse is in the placing
\* state exactly when the line is empty or its last token leaves a value
\* expected; it then fails with AbruptEnd, whatever parentheses are still
\* unmatched, and never fails with AbruptEnd in the binding state.
C14_AbruptEndIffPlacing ==
    [][EndsLine =>
          /\ parse.active_ruleset = "placing" <=> ExpectsValue(line)
          /\ parse.active_ruleset = "placing" => result' = Err(CalcError("abrupt_end", <<>>))
          /\ parse.active_ruleset = "binding" => result' /= Err(CalcError("abrupt_end", <<>>))]_vars

\* a line has ended on an operator inside parentheses that are still
\* unmatched, and parse has failed with AbruptEnd
C14_Witness ==
    /\ pc = "failed"
    /\ result = Err(CalcError("abrupt_end", <<>>))
    /\ OpenCount(line) > 0
    /\ Last(line).kind = "operator"

\* C15: when the tokens end in the binding state with a '(' still unmatched,
\* parse fails with CouldNotFind(")") and returns no program.
C15_UnmatchedOpenFails ==
    [][EndsLine /\ parse.active_ruleset = "binding" /\ OpenCount(line) > 0
          => pc' = "failed" /\ result' = Err(CalcError("could_not_find", <<")">>))]_vars

\* C16: a ')' with no '(' left to match makes parse fail with a CouldNotFind
\* error: it is never accepted, and never reported as another kind of error.
C16_UnmatchedCloseFails ==
    [][Dispatched(<<")">>) /\ OpenCount(line) = 0
          => pc' = "failed" /\ result'.status = "Err" /\ result'.error.kind = "could_not_find"]_vars

\* C17: once the scanner has yielded InvalidCharacter for a character, the
\* sequence has ended: every later pull returns the end of the sequence and
\* yields no further item.
C17_InvalidCharacterEndsSequence ==
    [][pc = "scan" /\ line /= <<>> /\ Last(line).kind = "invalid_character"
          /\ tokens_used' = tokens_used + 1
          => pc' = "scan" /\ line' = line]_vars

\* a failed parse call returned the error of the first token, in stream
\* order, at which parse's loop (or, after the last token, finalize) fails,
\* and no program
C18_FirstError ==
    pc = "failed" =>
        LET n == Len(line)
            before == parse_loop(NewParse(variables), line, 1, n - 1)
        IN /\ result.status = "Err"
           /\ before.result.status = "Ok"
           /\ result = parse_tokens(before, line, IF n = 0 THEN 1 ELSE n).result

\* evaluate runs only on the program of a parse call that returned Ok
C18_NoEvaluateAfterError == pc \in {"evaluate", "done"} => parse.result.status = "Ok"

\* after an error no further token is pulled, and the call stays failed
C18_NoPullAfterError ==
    parse.result.status /= "Ok" => Len(line') <= Len(line) /\ pc' \in {"failed", "panicked", "parse"}
                                      /\ (pc' = "parse" => line' = <<>>)

\* C18: parse returns the error of the earliest token, in stream order, at
\* which the scanner or a rule fails, pulls no token after it and returns no
\* program; evaluate is not run on a failed parse.
C18_EarliestErrorReturned ==
    /\ []C18_FirstError
    /\ []C18_NoEvaluateAfterError
    /\ [][C18_NoPullAfterError]_vars

\* 2 2 has failed with DidNotExpect(2), whatever would follow the second 2
C18_Witness ==
    /\ pc = "failed"
    /\ line = <<Number(<<"2">>), Number(<<"2">>)>>
    /\ result = Err(CalcError("did_not_expect", <<"2">>))

\* the binding ruleset holds the rule in one of its overlays
BindsWith(rule) ==
    \E i \in 1..Len(parse.binding) : \E j \in 1..Len(parse.binding[i]) : parse.binding[i][j] = rule

\* C19: after every token dispatched without error, the enclosure tag is the
\* kind of the innermost '(' still unmatched (open when there is none), and
\* the binding overlay in force is the one of that kind: every ')' restores
\* what was in force before its matching '('.
C19_EnclosureIsInnermostOpen ==
    pc = "parse" =>
        /\ parse.enclosure = InnermostKind(line)
        /\ BindsWith("paren_binding") <=> InnermostKind(line) = "nested"
        /\ BindsWith("arg_binding") <=> InnermostKind(line) = "listed"

\* the markers of the stack above its topmost section
AboveTopSection(stack) == SubSeq(stack, Len(ThroughTopSection(stack)) + 1, Len(stack))

Rank(precedence) == CASE precedence = "low" -> 1 [] precedence = "medium" -> 2 [] precedence = "high" -> 3

\* the pending unary or binary marker is one the new operator has to flush:
\* its precedence is at least the operator's, and greater when the operator
\* is ^
MustFlush(marker, operator) ==
    /\ marker.node \in {"function", "binary_function"}
    /\ LET pending == IF marker.node = "function" THEN Function_precedence(marker.function)
                      ELSE BinaryFunction_precedence(marker.function)
           new == BinaryFunction_precedence(operator)
       IN IF operator = "exponentiation" THEN Rank(pending) > Rank(new) ELSE Rank(pending) >= Rank(new)

\* the step dispatches a binary operator in the binding state without error
BindsOperator ==
    /\ pc = "parse" /\ pc' = "parse" /\ Len(line') = Len(line) + 1
    /\ parse.active_ruleset = "binding"
    /\ Last(line').kind = "operator" /\ Last(line').content /= <<"=">>

\* C20: when a binary operator is dispatched in the binding state, every
\* pending unary or binary marker above the nearest section whose precedence
\* is at least the operator's (greater, for ^) is moved to the output before
\* the operator's marker is pushed: none is left beneath it within the
\* section, and the output grows by exactly those markers.
C20_OperatorFlushesPreceding ==
    [][BindsOperator =>
          LET operator == BinaryFunction_from_operator(Last(line').content).value
              before == AboveTopSection(parse.stack)
              after == AboveTopSection(parse'.stack)
          IN /\ Last(after) = StackBinary(operator)
             /\ \A i \in 1..(Len(after) - 1) : ~MustFlush(after[i], operator)
             /\ Len(parse'.expression) - Len(parse.expression)
                    = Cardinality({i \in 1..Len(before) : MustFlush(before[i], operator)})]_vars

\* the step dispatches a token right after an accepted min, max or avg
FollowsVariedName ==
    /\ pc = "parse" /\ line /= <<>> /\ IsVariedName(Last(line))
    /\ Len(line') = Len(line) + 1
    /\ Last(line').kind /= "invalid_character"

\* C21: after a variadic function name (min, max, avg) accepted in a value
\* position, the first token of the line included, the only token accepted
\* next is '(' and it opens a listed enclosure; any other token makes parse
\* fail with DidNotExpect of that token.
C21_VariedNameExpectsOpen ==
    [][FollowsVariedName =>
          IF Last(line').content = <<"(">>
          THEN pc' = "parse" /\ parse'.enclosure = "listed"
          ELSE pc' = "failed" /\ result' = Err(CalcError("did_not_expect", Last(line').content))]_vars

\* the step is the iteration of evaluate's loop on an assign node
EvaluatesAssign ==
    /\ pc = "evaluate" /\ ip <= Len(parse.expression) /\ ip' = ip + 1
    /\ parse.expression[ip].node = "assign"
    /\ slots /= <<>>

\* C22: when evaluate executes an assign(name) node, the value it stores
\* under name is the value on top of the value stack, every other entry of
\* the mapping is kept, and the value stack is left as it was.
C22_AssignStoresTop ==
    [][EvaluatesAssign =>
          /\ slots' = slots
          /\ variables' = Insert(variables, parse.expression[ip].identifier, Last(slots))]_vars

(***************************************************************************)
(* The tokens of a source line, read off its characters: whitespace        *)
(* separates, an operator or punctuation character is a token, a maximal   *)
(* run of digits and dots is a number and a maximal run of letters an      *)
(* identifier.                                                             *)
(***************************************************************************)
ClassOf(c) ==
    CASE is_whitespace(c) -> "is_whitespace"
      [] is_digit_or_dot(c) -> "is_digit_or_dot"
      [] is_operator(c) -> "is_operator"
      [] is_punctuation(c) -> "is_punctuation"
      [] is_alphabetic(c) -> "is_alphabetic"
      [] OTHER -> "invalid"

RECURSIVE RunLength(_, _)
RunLength(chars, class) ==
    IF chars = <<>> \/ ClassOf(Head(chars)) /= class THEN 0
    ELSE 1 + RunLength(Tail(chars), class)

RECURSIVE TokensOf(_)
TokensOf(chars) ==
    IF chars = <<>> THEN <<>>
    ELSE LET class == ClassOf(Head(chars))
             n == IF class \in {"is_digit_or_dot", "is_alphabetic"} THEN RunLength(chars, class) ELSE 1
             rest == TokensOf(SubSeq(chars, n + 1, Len(chars)))
         IN CASE class = "is_whitespace" -> rest
              [] class = "is_digit_or_dot" -> <<Number(SubSeq(chars, 1, n))>> \o rest
              [] class = "is_alphabetic" -> <<Identifier(SubSeq(chars, 1, n))>> \o rest
              [] class = "is_operator" -> <<Operator(Head(chars))>> \o rest
              [] class = "is_punctuation" -> <<Punctuation(Head(chars))>> \o rest

HasNoInvalidCharacter(chars) == \A i \in 1..Len(chars) : ClassOf(chars[i]) /= "invalid"

IsPrefix(short, long) == Len(short) <= Len(long) /\ short = SubSeq(long, 1, Len(short))

\* the items yielded so far are the first tokens of the line, all of them
\* once the string is consumed, and no slice has panicked
C23_TokensAreTheLine ==
    HasNoInvalidCharacter(scanner.string) =>
        /\ pc = "scan"
        /\ IsPrefix(line, TokensOf(scanner.string))
        /\ is_empty(scanner) => line = TokensOf(scanner.string)

\* the index never goes back, and a pull that yields a token moves it on
C23_IndexAdvances ==
    /\ scanner'.index >= scanner.index
    /\ Len(line') > Len(line) => scanner'.index > scanner.index

\* C23: for a source line with no invalid character the scanner consumes
\* each character exactly once and never backtracks: the index only
\* advances, and the tokens yielded are, in order, the operator and
\* punctuation characters, the maximal runs of digits and dots and the
\* maximal runs of letters of the line, so that their contents concatenated
\* are the line without its whitespace.
C23_ScannerConsumesOnce ==
    /\ []C23_TokensAreTheLine
    /\ [][HasNoInvalidCharacter(scanner.string) => C23_IndexAdvances]_vars

\* the step dispatches an operator token where a value may start (after
\* min, max or avg only '(' may follow: that is no value position)
PlacesOperator ==
    /\ pc = "parse" /\ Len(line') = Len(line) + 1
    /\ parse.active_ruleset = "placing"
    /\ ~(line /= <<>> /\ IsVariedName(Last(line)))
    /\ Last(line').kind = "operator"

\* the step dispatches '=' where a binary operator may follow, elsewhere
\* than right after the leading name of the line
BindsAssignElsewhere ==
    /\ pc = "parse" /\ Len(line') = Len(line) + 1
    /\ parse.active_ruleset = "binding"
    /\ Last(line').kind = "operator" /\ Last(line').content = <<"=">>
    /\ ~(Len(line) = 1 /\ IsPlainName(line[1]))

FailsWithInvalidOperator ==
    pc' = "failed" /\ result' = Err(CalcError("invalid_operator", Last(line').content))

\* C24: an operator token other than '+' and '-' in a value position, and
\* an '=' in a binary position anywhere but directly after the leading
\* assignment target of the line, make parse fail with InvalidOperator of
\* that symbol.
C24_MisplacedOperatorFails ==
    [][/\ PlacesOperator /\ Last(line').content \notin {<<"+">>, <<"-">>} => FailsWithInvalidOperator
       /\ BindsAssignElsewhere => FailsWithInvalidOperator]_vars

(***************************************************************************)
(* The operator and function tokens of a line against the markers pending  *)
(* on the stack and the nodes already in the output.                       *)
(***************************************************************************)
\* the token before position i ends an operand: a number, a ')' or the name
\* of a constant or a variable
AfterOperand(toks, i) ==
    /\ i > 1
    /\ \/ toks[i - 1].kind = "number"
       \/ toks[i - 1].content = <<")">>
       \/ toks[i - 1].kind = "identifier" /\ ~IsUnaryPrefix(toks[i - 1]) /\ ~IsVariedName(toks[i - 1])

\* '+', '-' where no operand has ended, and unary function names
UnaryTokens(toks) == {i \in 1..Len(toks) : IsUnaryPrefix(toks[i]) /\ ~AfterOperand(toks, i)}

\* binary operators after an operand
BinaryTokens(toks) == {i \in 1..Len(toks) : IsBinaryOperator(toks[i]) /\ AfterOperand(toks, i)}

VariedTokens(toks) == {i \in 1..Len(toks) : IsVariedName(toks[i])}

Pending(kind) == Cardinality({i \in 1..Len(parse.stack) : parse.stack[i].node = kind})

Emitted(kind) == Cardinality({i \in 1..Len(parse.expression) : parse.expression[i].node = kind})

\* C25: no accepted token is lost.  While parse runs without error, and in
\* the program it returns, the unary prefixes and unary functions of the
\* line are the function markers pending on the stack plus the cast nodes of
\* the output, its binary operators the pending binary markers plus the tie
\* nodes, and its variadic function names the pending varied markers plus
\* the knot nodes: no marker is popped and discarded, and the returned
\* program, whose stack is empty, has one node per such token.
C25_NoTokenLost ==
    pc \in {"parse", "evaluate"} =>
        /\ Pending("function") + Emitted("cast") = Cardinality(UnaryTokens(line))
        /\ Pending("binary_function") + Emitted("tie") = Cardinality(BinaryTokens(line))
        /\ Pending("varied_function") + Emitted("knot") = Cardinality(VariedTokens(line))
        /\ pc = "evaluate" => parse.stack = <<>>

\* the positions of the assign nodes of the program
AssignNodes == {i \in 1..Len(Program) : Program[i].node = "assign"}

\* C26: a program returned by a successful parse holds at most one assign
\* node; when it holds one, the line starts with an identifier that is no
\* constant and no function name followed by '=', the node names that
\* identifier and it is the last node of the program.
C26_OneAssignLast ==
    pc \in {"evaluate", "done"} =>
        /\ Cardinality(AssignNodes) <= 1
        /\ AssignNodes /= {} =>
               /\ Len(line) >= 2
               /\ IsPlainName(line[1])
               /\ line[2] = Operator("=")
               /\ AssignNodes = {Len(Program)}
               /\ Program[Len(Program)].identifier = line[1].content

\* evaluate has reached the assign node that ends the program of a line
\* with an operator and parentheses
C26_Witness ==
    /\ pc = "evaluate" /\ ip = Len(Program) /\ ip >= 3
    /\ Program[ip].node = "assign"
    /\ OpenKinds(line, 1, <<>>) = <<>> /\ \E i \in 1..Len(line) : line[i].content = <<"(">>

\* the name of a constant, of a unary function or of a variadic function
IsReservedName(content) ==
    \/ content \in DOMAIN create_constants
    \/ IsSome(Function_from_identifier(content))
    \/ IsSome(VariedFunction_from_identifier(content))

\* no key of the mapping, no variable or assign marker of the stack and no
\* assign node of the output is a reserved name
C27_NoReservedTarget ==
    /\ \A k \in DOMAIN variables : ~IsReservedName(k)
    /\ \A i \in 1..Len(parse.stack) :
           parse.stack[i].node \in {"variable", "assign"} => ~IsReservedName(parse.stack[i].identifier)
    /\ \A i \in 1..Len(parse.expression) :
           parse.expression[i].node = "assign" => ~IsReservedName(parse.expression[i].identifier)

\* a constant name dispatched without error is its fixed value in the output
C27_ConstantIsItsValue ==
    /\ pc = "parse" /\ pc' = "parse" /\ Len(line') = Len(line) + 1
    /\ Last(line').kind = "identifier" /\ Last(line').content \in DOMAIN create_constants
    => /\ parse'.expression = Append(parse.expression, ExprValue(create_constants[Last(line').content]))
       /\ parse'.stack = parse.stack
       /\ parse'.active_ruleset = "binding"

\* C27: starting from an empty mapping, after any sequence of cycles of
\* parse and evaluate the mapping holds no key that is the name of a
\* constant (pi, e), of a unary function or of a variadic function: such a
\* name is never made an assignment target, and a constant name always
\* resolves to its fixed value.
C27_ReservedNamesStayReserved ==
    /\ []C27_NoReservedTarget
    /\ [][C27_ConstantIsItsValue]_vars

\* a second line has assigned the value of a constant to a plain name
C27_Witness ==
    /\ pc = "done" /\ lines_read = 2
    /\ DOMAIN variables = {Name_x} /\ variables[Name_x] = PiVal

====
